---- MODULE Spec2Model ----
(***************************************************************************)
(* Movie catalog service: the Express router of the backend                *)
(* (routes/movieRoutes), the Mongoose schema of Movie, connectDB and the   *)
(* server start-up sequence.                                               *)
(*                                                                         *)
(* The store is the Movie collection in its natural (insertion) order.     *)
(* Every route handler is one action, except GET /random, whose two store  *)
(* round trips (countDocuments, findOne().skip()) are two steps between    *)
(* which other requests may run.                                           *)
(***************************************************************************)
EXTENDS Integers, Sequences, FiniteSets, TLC

VARIABLES env, proc, db, store, nextId, rnd, last

vars == <<env, proc, db, store, nextId, rnd, last>>

(***************************************************************************)
(* Bounds                                                                  *)
(***************************************************************************)
\* number of documents ever inserted (identifiers handed out by the store)
MaxId == 3
\* resolution of Math.random(): it yields k / RandDen for k in 0..RandDen-1
RandDen == 8

(***************************************************************************)
(* JSON values of a request body or of the poster service's answer         *)
(***************************************************************************)
Undef == [k |-> "undefined", s |-> "", n |-> 0]
Null == [k |-> "null", s |-> "", n |-> 0]
Str(s) == [k |-> "string", s |-> s, n |-> 0]
Num(n) == [k |-> "number", s |-> "", n |-> n]

\* JavaScript's !x
Falsy(x) ==
    \/ x.k = "undefined"
    \/ x.k = "null"
    \/ x.k = "string" /\ x.s = ""
    \/ x.k = "number" /\ x.n = 0

Placeholder == "https://via.placeholder.com/250x350?text=No+Image"

\* Values a client can put in the four fields of the POST body
Titles == {Undef, Str(""), Str("Inception")}
Genres == {Null, Str(""), Str("Sci-Fi")}
Ratings == {Undef, Str(""), Num(0), Num(8), Str("abc")}
Years == {Undef, Num(0), Num(2010)}
Bodies == [title : Titles, genre : Genres, rating : Ratings, year : Years]
NoBody == [title |-> Undef, genre |-> Undef, rating |-> Undef, year |-> Undef]

\* :id of DELETE /api/movies/:id : an ObjectId, or a string that is none
ObjectId(n) == [valid |-> TRUE, n |-> n]
Malformed == [valid |-> FALSE, n |-> 0]
NoParam == [valid |-> FALSE, n |-> 0 - 1]
Params == {ObjectId(n) : n \in 1..MaxId} \cup {Malformed}

(***************************************************************************)
(* getPosterUrl                                                            *)
(***************************************************************************)
\* What axios.get on the poster service can produce: a throw (transport
\* failure or a non-2xx status), or a response whose data may be empty and
\* whose Poster may be absent, empty, the "N/A" sentinel or a URL.
Threw == [threw |-> TRUE, data |-> FALSE, Poster |-> Undef]
Answer(hasData, poster) == [threw |-> FALSE, data |-> hasData, Poster |-> poster]
OmdbAnswers ==
    { Threw, Answer(FALSE, Undef), Answer(TRUE, Undef), Answer(TRUE, Str("")),
      Answer(TRUE, Str("N/A")), Answer(TRUE, Str("https://img.omdb/tt1375666.jpg")) }

\* the service refuses a request without apikey (401), which axios throws
PosterResponses(e) == IF e.OMDB_API_KEY THEN OmdbAnswers ELSE {Threw}

\* getPosterUrl without the "N/A" comparison
getPosterUrl_NoSentinel(res) ==
    IF ~res.threw /\ res.data /\ ~Falsy(res.Poster)
    THEN res.Poster.s
    ELSE Placeholder

\* getPosterUrl that tests Poster against undefined instead of truthiness
getPosterUrl_NoTruthy(res) ==
    IF ~res.threw /\ res.data /\ res.Poster.k = "string" /\ res.Poster # Str("N/A")
    THEN res.Poster.s
    ELSE Placeholder

getPosterUrl(res) ==
    IF ~res.threw /\ res.data /\ ~Falsy(res.Poster) /\ res.Poster # Str("N/A")
    THEN res.Poster.s
    ELSE Placeholder

(***************************************************************************)
(* movieSchema                                                             *)
(***************************************************************************)
\* required String: present and not the empty string
StringPathValid(x) == x.k = "string" /\ x.s # ""
\* required Number: a value that casts to a number ("" casts to null,
\* a non-numeric string fails the cast)
NumberPathValid(x) == x.k = "number"

\* validation run by save() on new Movie({title, genre, rating, year, poster})
movieSchema(body) ==
    /\ StringPathValid(body.title)
    /\ StringPathValid(body.genre)
    /\ NumberPathValid(body.rating)
    /\ NumberPathValid(body.year)

\* the document save() inserts; _id is assigned by the store
Movie(id, body, poster) ==
    [id |-> id, title |-> body.title, genre |-> body.genre,
     rating |-> body.rating, year |-> body.year, poster |-> poster]

(***************************************************************************)
(* Store queries                                                           *)
(***************************************************************************)
Ids(st) == {st[i].id : i \in 1..Len(st)}
Recs(st) == {st[i] : i \in 1..Len(st)}

countDocuments(st) == Len(st)

\* a fetch that clamps the offset to the last document
findOneSkip_Clamped(st, random) ==
    IF random < Len(st) THEN <<st[random + 1]>>
    ELSE IF Len(st) > 0 THEN <<st[Len(st)]>> ELSE <<>>

\* findOne().skip(random): the document at that offset, or null (<<>>)
findOneSkip(st, random) ==
    IF random < Len(st) THEN <<st[random + 1]>> ELSE <<>>

\* Math.ceil in place of Math.floor
RandomIndex_Ceil(k, count) == (k * count + RandDen - 1) \div RandDen

\* Math.floor(Math.random() * count) for Math.random() = k / RandDen
RandomIndex(k, count) == (k * count) \div RandDen

\* findByIdAndDelete casts :id to the type of _id (ObjectId) and throws a
\* CastError when the string is no ObjectId
CastErrorId(id) == ~id.valid
Found(st, id) == id.valid /\ id.n \in Ids(st)
\* a delete that removes the first document of the collection
RemoveById_First(st, id) == Tail(st)

RemoveById(st, id) == SelectSeq(st, LAMBDA m : m.id # id.n)

(***************************************************************************)
(* Responses                                                               *)
(***************************************************************************)
\* last: the request completed last and its response, with the store before
\* and after it (history, for stating the properties)
Response(op, body, id, status, json, message, looked, pre, post, cnt, rand, mut) ==
    [op |-> op, body |-> body, id |-> id, status |-> status, json |-> json,
     message |-> message, lookup |-> looked.issued, res |-> looked.res,
     pre |-> pre, post |-> post,
     count |-> cnt, random |-> rand, mutated |-> mut, dbUp |-> db = "connected"]

\* whether the handler issued the poster lookup, and what came back
NoLookup == [issued |-> FALSE, res |-> Threw]
Lookup(res) == [issued |-> TRUE, res |-> res]

Idle == [pc |-> "idle", count |-> 0, random |-> 0, mutated |-> FALSE]

Init ==
    /\ env \in [MONGO_URI : BOOLEAN, OMDB_API_KEY : BOOLEAN]
    /\ proc = "boot"
    /\ db = "idle"
    /\ store = <<>>
    /\ nextId = 1
    /\ rnd = Idle
    /\ last = Response("none", NoBody, NoParam, 0, <<>>, "", NoLookup, <<>>, <<>>, 0, 0, FALSE)

(***************************************************************************)
(* Start-up                                                                *)
(***************************************************************************)
\* start-up without the MONGO_URI check
MissingMongoURI_Unchecked(e) == FALSE

MissingMongoURI(e) == ~e.MONGO_URI

\* the server module: exit(1) without MONGO_URI, else connectDB (not
\* awaited), mount the routes and listen
Startup ==
    /\ proc = "boot"
    /\ IF MissingMongoURI(env)
       THEN proc' = "exited" /\ db' = db
       ELSE proc' = "serving" /\ db' = "connecting"
    /\ UNCHANGED <<env, store, nextId, rnd, last>>

\* connectDB: mongoose.connect resolves
ConnectOk ==
    /\ proc = "serving" /\ db = "connecting"
    /\ db' = "connected"
    /\ UNCHANGED <<env, proc, store, nextId, rnd, last>>

\* connectDB: mongoose.connect rejects, process.exit(1)
ConnectFail ==
    /\ proc = "serving" /\ db = "connecting"
    /\ proc' = "exited"
    /\ UNCHANGED <<env, db, store, nextId, rnd, last>>

\* a store operation issued before the connection is up is buffered and
\* rejects when the buffer times out; an operation on a connected store runs
StoreUp == db = "connected"

\* a write that lands while GET /random is between its two store calls
Touch == IF rnd.pc = "fetch" THEN [rnd EXCEPT !.mutated = TRUE] ELSE rnd

(***************************************************************************)
(* GET /api/movies                                                         *)
(***************************************************************************)
GetMovies ==
    /\ proc = "serving"
    /\ last' = IF StoreUp
               THEN Response("list", NoBody, NoParam, 200, store, "",
                             NoLookup, store, store, 0, 0, FALSE)
               ELSE Response("list", NoBody, NoParam, 500, <<>>,
                             "Server Error while fetching movies",
                             NoLookup, store, store, 0, 0, FALSE)
    /\ UNCHANGED <<env, proc, db, store, nextId, rnd>>

(***************************************************************************)
(* POST /api/movies                                                        *)
(***************************************************************************)
\* the validation without !year
FieldMissing_NoYear(body) ==
    Falsy(body.title) \/ Falsy(body.genre) \/ Falsy(body.rating)

\* a validation that tests for absence (undefined, null, "") and lets 0 pass
FieldMissing_ZeroOk(body) ==
    LET Absent(x) == x.k \in {"undefined", "null"} \/ (x.k = "string" /\ x.s = "")
    IN  Absent(body.title) \/ Absent(body.genre) \/ Absent(body.rating) \/ Absent(body.year)

\* if (!title || !genre || !rating || !year)
FieldMissing(body) ==
    Falsy(body.title) \/ Falsy(body.genre) \/ Falsy(body.rating) \/ Falsy(body.year)

PostMovie(body) ==
    /\ proc = "serving"
    /\ nextId <= MaxId
    /\ IF FieldMissing(body)
       THEN /\ last' = Response("add", body, NoParam, 400, <<>>,
                                "All fields are required",
                                NoLookup, store, store, 0, 0, FALSE)
            /\ UNCHANGED <<store, nextId, rnd>>
       ELSE \E res \in PosterResponses(env) :
            LET poster == getPosterUrl(res)
                newMovie == Movie(nextId, body, poster)
            IN  IF movieSchema(body) /\ StoreUp
                THEN /\ store' = Append(store, newMovie)
                     /\ nextId' = nextId + 1
                     /\ rnd' = Touch
                     /\ last' = Response("add", body, NoParam, 201, <<newMovie>>, "",
                                         Lookup(res), store, store', 0, 0, FALSE)
                ELSE /\ last' = Response("add", body, NoParam, 500, <<>>,
                                         "Server Error while adding movie",
                                         Lookup(res), store, store, 0, 0, FALSE)
                     /\ UNCHANGED <<store, nextId, rnd>>
    /\ UNCHANGED <<env, proc, db>>

(***************************************************************************)
(* GET /api/movies/random                                                  *)
(***************************************************************************)
\* countDocuments resolves; on 0 the handler answers null, else it draws
\* the offset and issues findOne().skip(random)
RandomCount(k) ==
    /\ proc = "serving"
    /\ rnd.pc = "idle"
    /\ IF ~StoreUp
       THEN /\ last' = Response("random", NoBody, NoParam, 500, <<>>,
                                "Server Error while fetching random movie",
                                NoLookup, store, store, 0, 0, FALSE)
            /\ rnd' = rnd
       ELSE LET count == countDocuments(store)
            IN  IF count = 0
                THEN /\ last' = Response("random", NoBody, NoParam, 200, <<>>, "",
                                         NoLookup, store, store, 0, 0, FALSE)
                     /\ rnd' = rnd
                ELSE /\ rnd' = [pc |-> "fetch", count |-> count,
                                random |-> RandomIndex(k, count), mutated |-> FALSE]
                     /\ last' = last
    /\ UNCHANGED <<env, proc, db, store, nextId>>

\* findOne().skip(random) resolves and the handler answers with its result
RandomFetch ==
    /\ proc = "serving"
    /\ rnd.pc = "fetch"
    /\ last' = Response("random", NoBody, NoParam, 200, findOneSkip(store, rnd.random), "",
                        NoLookup, store, store, rnd.count, rnd.random, rnd.mutated)
    /\ rnd' = Idle
    /\ UNCHANGED <<env, proc, db, store, nextId>>

(***************************************************************************)
(* DELETE /api/movies/:id                                                  *)
(***************************************************************************)
\* (the 200 message is the source's text without its leading check mark)
DeleteMovie(id) ==
    /\ proc = "serving"
    /\ IF CastErrorId(id) \/ ~StoreUp
       THEN /\ last' = Response("delete", NoBody, id, 500, <<>>,
                                "Server Error while deleting movie",
                                NoLookup, store, store, 0, 0, FALSE)
            /\ UNCHANGED <<store, rnd>>
       ELSE IF ~Found(store, id)
       THEN /\ last' = Response("delete", NoBody, id, 404, <<>>, "Movie not found",
                                NoLookup, store, store, 0, 0, FALSE)
            /\ UNCHANGED <<store, rnd>>
       ELSE /\ store' = RemoveById(store, id)
            /\ rnd' = Touch
            /\ last' = Response("delete", NoBody, id, 200, <<>>,
                                "Movie deleted successfully",
                                NoLookup, store, store', 0, 0, FALSE)
    /\ UNCHANGED <<env, proc, db, nextId>>

Next ==
    \/ Startup
    \/ ConnectOk
    \/ ConnectFail
    \/ GetMovies
    \/ \E body \in Bodies : PostMovie(body)
    \/ \E k \in 0..(RandDen - 1) : RandomCount(k)
    \/ RandomFetch
    \/ \E id \in Params : DeleteMovie(id)

Spec == Init /\ [][Next]_vars

(***************************************************************************)
(* Properties                                                              *)
(***************************************************************************)
Fields == {"title", "genre", "rating", "year"}

\* a field the client left out (undefined, null) or sent empty ("")
MissingOrEmpty(x) == x.k = "undefined" \/ x.k = "null" \/ x = Str("")

\* all four fields supplied with a value of their type
AllSupplied(body) ==
    /\ body.title.k = "string" /\ body.title.s # ""
    /\ body.genre.k = "string" /\ body.genre.s # ""
    /\ body.rating.k = "number"
    /\ body.year.k = "number"

\* C1: an Add with any of title, genre, rating, year missing or empty is
\* answered 400 "All fields are required" and the store holds the same
\* records after it as before.
C1_MissingFieldRejected ==
    (last.op = "add" /\ \E f \in Fields : MissingOrEmpty(last.body[f]))
        => /\ last.status = 400
           /\ last.message = "All fields are required"
           /\ last.post = last.pre
           /\ store = last.pre

C1_Witness ==
    /\ last.op = "add"
    /\ \E f \in Fields : MissingOrEmpty(last.body[f])
    /\ last.status = 400
    /\ Len(store) >= 1

\* C2: an Add with all four fields supplied and a working store persists
\* exactly one new record carrying the given fields and a non-empty poster,
\* and returns it with status 201.
C2_AllSuppliedPersists ==
    (last.op = "add" /\ AllSupplied(last.body) /\ last.dbUp)
        => /\ last.status = 201
           /\ Len(last.json) = 1
           /\ last.post = Append(last.pre, last.json[1])
           /\ last.json[1].title = last.body.title
           /\ last.json[1].genre = last.body.genre
           /\ last.json[1].rating = last.body.rating
           /\ last.json[1].year = last.body.year
           /\ last.json[1].poster # ""

\* C3: a Delete of an identifier in the store answers 200 and removes that
\* record and no other; a List returns the store as it then is, so it
\* lacks the identifier and has every other record unchanged.
C3_DeleteExisting ==
    /\ (last.op = "delete" /\ last.id.valid /\ last.id.n \in Ids(last.pre))
        => /\ last.status = 200
           /\ last.id.n \notin Ids(last.post)
           /\ \A m \in Recs(last.pre) : m.id # last.id.n => m \in Recs(last.post)
           /\ Len(last.post) = Len(last.pre) - 1
           /\ store = last.post
    /\ (last.op = "list" /\ last.status = 200)
        => /\ last.json = last.pre
           /\ store = last.pre

C3_Witness ==
    /\ last.op = "delete"
    /\ last.status = 200
    /\ Len(last.pre) >= 2
    /\ last.pre[1].id # last.id.n

\* C4: a Delete of an identifier that is not in the store (the store
\* working) answers 404 and leaves the store unchanged.
C4_DeleteUnknownNotFound ==
    (last.op = "delete" /\ last.dbUp /\ ~(last.id.valid /\ last.id.n \in Ids(last.pre)))
        => /\ last.status = 404
           /\ last.post = last.pre
           /\ store = last.pre

\* C5: a Random that no write overlapped answers null exactly when the
\* store is empty and otherwise one of the store's records, leaves the
\* store unchanged, and every record of a non-empty store is a result
\* some draw of Math.random() selects.
C5_RandomSequential ==
    /\ (last.op = "random" /\ last.dbUp /\ ~last.mutated)
        => /\ last.status = 200
           /\ (last.json = <<>>) <=> (last.pre = <<>>)
           /\ last.pre # <<>> => (Len(last.json) = 1 /\ last.json[1] \in Recs(last.pre))
           /\ last.post = last.pre
           /\ store = last.pre
    /\ \A m \in Recs(store) :
           \E k \in 0..(RandDen - 1) :
               findOneSkip(store, RandomIndex(k, countDocuments(store))) = <<m>>
    /\ \A k \in 0..(RandDen - 1) :
           store # <<>> => findOneSkip(store, RandomIndex(k, countDocuments(store))) # <<>>

C5_Witness ==
    /\ last.op = "random"
    /\ ~last.mutated
    /\ Len(last.pre) >= 2
    /\ last.random >= 1
    /\ last.json = <<last.pre[last.random + 1]>>

\* C9: a Random that passed its count step answers 200 with whatever the
\* fetch at the drawn offset finds in the store as it is at the fetch: null
\* when a Delete in between left fewer records than the offset needs, and
\* never an error.
C9_RandomNotAtomic ==
    (last.op = "random" /\ last.count >= 1)
        => /\ last.status = 200
           /\ last.message = ""
           /\ last.random < last.count
           /\ IF last.random < Len(last.pre)
              THEN last.json = <<last.pre[last.random + 1]>>
              ELSE last.json = <<>>
           /\ last.json = <<>> => (last.mutated /\ Len(last.pre) < last.count)

C9_Witness ==
    /\ last.op = "random"
    /\ last.count >= 1
    /\ last.mutated
    /\ last.json = <<>>
    /\ last.status = 200

\* the lookup gave no usable Poster: a throw, no data, no Poster field, an
\* empty one, or the "N/A" sentinel
LookupFailed(res) ==
    \/ res.threw
    \/ ~res.data
    \/ res.Poster \in {Undef, Str(""), Str("N/A")}

\* C6: when the poster lookup throws, answers "N/A" or answers without a
\* usable Poster, an otherwise valid Add still answers 201 and persists the
\* record with the placeholder as its poster.
C6_LookupDegrades ==
    (last.op = "add" /\ last.lookup /\ LookupFailed(last.res)
        /\ AllSupplied(last.body) /\ last.dbUp)
        => /\ last.status = 201
           /\ Len(last.json) = 1
           /\ last.json[1].poster = Placeholder
           /\ last.post = Append(last.pre, last.json[1])
           /\ store = last.post

C6_Witness ==
    /\ last.op = "add"
    /\ last.lookup
    /\ last.res = Answer(TRUE, Str("N/A"))
    /\ last.status = 201
    /\ store[Len(store)].poster = Placeholder

\* C7: the records of the store have pairwise different identifiers, each
\* has title and genre (strings) and rating and year (numbers) present,
\* and each has a non-empty poster.
C7_StoreInvariant ==
    /\ \A i, j \in 1..Len(store) : i # j => store[i].id # store[j].id
    /\ \A i \in 1..Len(store) :
           /\ store[i].title.k = "string"
           /\ store[i].genre.k = "string"
           /\ store[i].rating.k = "number"
           /\ store[i].year.k = "number"
           /\ store[i].poster # ""

C7_Witness ==
    /\ Len(store) >= 2
    /\ \E i, j \in 1..Len(store) : store[i].poster = Placeholder /\ store[j].poster # Placeholder
    /\ last.op = "delete"
    /\ last.status = 200

\* C8 as stated: with MONGO_URI or OMDB_API_KEY missing the process never
\* serves.
C8_AnyMissingConfigFatal ==
    (~env.MONGO_URI \/ ~env.OMDB_API_KEY) => proc # "serving"

\* C8 amended: with MONGO_URI missing the process exits at start-up: it
\* never connects, never serves and never answers a request.
C8_MissingMongoURIFatal ==
    ~env.MONGO_URI
        => /\ proc \in {"boot", "exited"}
           /\ db = "idle"
           /\ last.op = "none"
           /\ store = <<>>

C8_Witness ==
    /\ ~env.MONGO_URI
    /\ proc = "exited"

\* C10: an Add whose rating or year is 0 is answered 400 like a missing
\* field, without a poster lookup and without a record persisted.
C10_ZeroRejected ==
    (last.op = "add" /\ (last.body.rating = Num(0) \/ last.body.year = Num(0)))
        => /\ last.status = 400
           /\ ~last.lookup
           /\ last.post = last.pre
           /\ store = last.pre

C10_Witness ==
    /\ last.op = "add"
    /\ last.body = [title |-> Str("Inception"), genre |-> Str("Sci-Fi"),
                    rating |-> Num(0), year |-> Num(2010)]
    /\ last.status = 400
    /\ last.dbUp

====
